---- MODULE Spec2Model ----
(***************************************************************************)
(* A model of pathfinder's compressed path representation                  *)
(* (geometry/src/outline.rs): Contour (points + per-point flags + cached   *)
(* bounds), ContourIter, PointIndex, and Outline (from_segments, transform, *)
(* monotonic conversion, clip orchestration).                              *)
(*                                                                         *)
(* Coordinates are f32 in the source; the model uses integers, so every    *)
(* min, max, addition and subtraction is exact.  Indices are u32 and are   *)
(* 0-based as in the source; Seq positions are index + 1.  Every index of  *)
(* the model is below 16, far from the u32 range, and the index queries    *)
(* are made on non-empty contours only, so that len() - 1 cannot wrap.     *)
(***************************************************************************)
EXTENDS Integers, Sequences, FiniteSets, TLC

VARIABLES
    contour,          \* SpecContour / SpecIter: the Contour `self`
    iter_index,       \* ContourIter.index (0: no iterator is live)
    yielded,          \* segments the live ContourIter has returned so far
    rebuilt,          \* contour receiving push_segment of each yielded segment
    iter_done,        \* the live ContourIter has returned None
    stream,           \* from_segments: the segments consumed so far
    outline,          \* Outline: [contours, bounds]
    current_contour,  \* from_segments: local `current_contour`
    fs_bounds,        \* from_segments: local `bounds` (Option<Rect>)
    pc,               \* from_segments: "loop" | "done"
    clip_images,      \* last clip: what the clipper returned, per input contour
    cursor,           \* SpecNav: a point index held by a caller of the query API
    nav_segment,      \* SpecNav: what the last segment_after call returned
    nav_op,           \* SpecNav: the last query made
    nav_from,         \* SpecNav: the index the last query was made at
    call,             \* SpecQuery / SpecPointIndex: the call in progress or last made
    ret               \* its return value (Option: <<>> while it has not returned)

vars == <<contour, iter_index, yielded, rebuilt, iter_done,
          stream, outline, current_contour, fs_bounds, pc, clip_images,
          cursor, nav_segment, nav_op, nav_from, call, ret>>

----------------------------------------------------------------------------
(* Bounds of the model *)

MaxPoints == 4      \* SpecContour, SpecIter: longest contour built by pushes
MaxStream == 3      \* SpecFromSegments: longest segment stream
MaxClipStream == 2  \* SpecClip: longest stream the clipped outline is built from
MaxNav == 4         \* SpecNav: longest contour the index queries are made on
MaxQuery == 4       \* SpecQuery

Coord == {0, 10}
Point == [x : Coord, y : Coord]
Pt(px, py) == [x |-> px, y |-> py]

Min(a, b) == IF a < b THEN a ELSE b
Max(a, b) == IF a > b THEN a ELSE b

----------------------------------------------------------------------------
(* euclid::Rect<f32>: origin + size; max_x() is origin.x + size.width *)

Rect(origin, size) == [origin |-> origin, size |-> size]
Size(w, h) == [width |-> w, height |-> h]
SizeZero == Size(0, 0)
RectZero == Rect(Pt(0, 0), SizeZero)
MaxX(r) == r.origin.x + r.size.width
MaxY(r) == r.origin.y + r.size.height

\* Rect::union as called by Contour::update_bounds.  euclid returns the other
\* rectangle when one of the two has zero size, else the hull of both.
RectUnion(a, b) ==
    IF a.size = SizeZero THEN b
    ELSE IF b.size = SizeZero THEN a
    ELSE LET min_x == Min(a.origin.x, b.origin.x)
             min_y == Min(a.origin.y, b.origin.y)
             max_x == Max(MaxX(a), MaxX(b))
             max_y == Max(MaxY(a), MaxY(b))
         IN  Rect(Pt(min_x, min_y), Size(max_x - min_x, max_y - min_y))

\* union_rect without the reset on the first point
union_rect_no_reset(bounds, new_point, first) ==
    LET min_x == Min(bounds.origin.x, new_point.x)
        min_y == Min(bounds.origin.y, new_point.y)
        max_x == Max(MaxX(bounds), new_point.x)
        max_y == Max(MaxY(bounds), new_point.y)
    IN  Rect(Pt(min_x, min_y), Size(max_x - min_x, max_y - min_y))

union_rect(bounds, new_point, first) ==
    IF first
    THEN Rect(new_point, SizeZero)
    ELSE LET min_x == Min(bounds.origin.x, new_point.x)
             min_y == Min(bounds.origin.y, new_point.y)
             max_x == Max(MaxX(bounds), new_point.x)
             max_y == Max(MaxY(bounds), new_point.y)
         IN  Rect(Pt(min_x, min_y), Size(max_x - min_x, max_y - min_y))

----------------------------------------------------------------------------
(* PointFlags, Segment *)

CONTROL_POINT_0 == 1
CONTROL_POINT_1 == 2
PointFlagsEmpty == 0
PointFlagsAll == {0, 1, 2, 3}
\* flag values of the points SpecContour pushes one at a time (bounds do not
\* read flags; CONTROL_POINT_1 points come from cubic segments)
PushFlags == {PointFlagsEmpty, CONTROL_POINT_0}

\* PointFlags::intersects(CONTROL_POINT_0 | CONTROL_POINT_1)
IntersectsControl(f) == (f % 2 = 1) \/ ((f \div 2) % 2 = 1)

LineSegment(from, to) == [from |-> from, to |-> to]
LineSegmentDefault == LineSegment(Pt(0, 0), Pt(0, 0))

SegmentNone ==
    [kind |-> "None", baseline |-> LineSegmentDefault,
     ctrl |-> LineSegmentDefault, flags |-> {}]
SegmentLine(line) ==
    [kind |-> "Line", baseline |-> line, ctrl |-> LineSegmentDefault, flags |-> {}]
SegmentQuadratic(baseline, ctrl) ==
    [kind |-> "Quadratic", baseline |-> baseline,
     ctrl |-> LineSegment(ctrl, Pt(0, 0)), flags |-> {}]
SegmentCubic(baseline, ctrl) ==
    [kind |-> "Cubic", baseline |-> baseline, ctrl |-> ctrl, flags |-> {}]
\* the outcome of a panic (index out of bounds, failed debug_assert!)
SegmentPanic ==
    [kind |-> "Panic", baseline |-> LineSegmentDefault,
     ctrl |-> LineSegmentDefault, flags |-> {}]

WithFlags(seg, fl) == [seg EXCEPT !.flags = fl]

----------------------------------------------------------------------------
(* Contour *)

Contour(points, flags, bounds) ==
    [points |-> points, flags |-> flags, bounds |-> bounds]
ContourNew == Contour(<<>>, <<>>, RectZero)

is_empty(c) == c.points = <<>>
len(c) == Len(c.points)
InRange(c, index) == index >= 0 /\ index < Len(c.points)
position_of(c, index) == c.points[index + 1]
last_position(c) == c.points[Len(c.points)]

push_point(c, point, flags) ==
    LET first == is_empty(c) IN
    Contour(Append(c.points, point), Append(c.flags, flags),
            union_rect(c.bounds, point, first))

\* push_segment that leaves out the end point of a curve
push_segment_no_curve_end(c, segment) ==
    IF segment.kind = "None" THEN c
    ELSE LET c0 == IF is_empty(c)
                   THEN push_point(c, segment.baseline.from, PointFlagsEmpty)
                   ELSE c
         IN  IF segment.kind # "Line"
             THEN LET c2 == push_point(c0, segment.ctrl.from, CONTROL_POINT_0)
                  IN  IF segment.kind # "Quadratic"
                      THEN push_point(c2, segment.ctrl.to, CONTROL_POINT_1)
                      ELSE c2
             ELSE push_point(c0, segment.baseline.to, PointFlagsEmpty)

\* push_segment that pushes the segment's start point every time
push_segment_always_from(c, segment) ==
    IF segment.kind = "None" THEN c
    ELSE LET c0 == push_point(c, segment.baseline.from, PointFlagsEmpty)
             c1 == IF segment.kind # "Line"
                   THEN LET c2 == push_point(c0, segment.ctrl.from, CONTROL_POINT_0)
                        IN  IF segment.kind # "Quadratic"
                            THEN push_point(c2, segment.ctrl.to, CONTROL_POINT_1)
                            ELSE c2
                   ELSE c0
         IN  push_point(c1, segment.baseline.to, PointFlagsEmpty)

push_segment(c, segment) ==
    IF segment.kind = "None" THEN c
    ELSE LET c0 == IF is_empty(c)
                   THEN push_point(c, segment.baseline.from, PointFlagsEmpty)
                   ELSE c
             c1 == IF segment.kind # "Line"
                   THEN LET c2 == push_point(c0, segment.ctrl.from, CONTROL_POINT_0)
                        IN  IF segment.kind # "Quadratic"
                            THEN push_point(c2, segment.ctrl.to, CONTROL_POINT_1)
                            ELSE c2
                   ELSE c0
         IN  push_point(c1, segment.baseline.to, PointFlagsEmpty)

\* take(): the contour left behind in `self`
take_left(c) == Contour(<<>>, <<>>, RectZero)

point_is_endpoint(c, point_index) == ~IntersectsControl(c.flags[point_index + 1])

\* add_to_point_index without the wrap at the end of the contour
add_to_point_index_no_wrap(c, point_index, addend) ==
    point_index + addend

add_to_point_index(c, point_index, addend) ==
    LET index == point_index + addend
        limit == len(c)
    IN  IF index >= limit THEN index - limit ELSE index

\* segment_after; dbg: built with debug assertions
segment_after(c, point_index, dbg) ==
    IF ~InRange(c, point_index) THEN SegmentPanic
    ELSE IF dbg /\ ~point_is_endpoint(c, point_index) THEN SegmentPanic
    ELSE
    LET from == position_of(c, point_index)
        point1_index == add_to_point_index(c, point_index, 1)
    IN  IF ~InRange(c, point1_index) THEN SegmentPanic
        ELSE IF point_is_endpoint(c, point1_index)
        THEN [SegmentNone EXCEPT !.baseline = LineSegment(from, position_of(c, point1_index)),
                                 !.kind = "Line"]
        ELSE
        LET point2_index == add_to_point_index(c, point_index, 2) IN
        IF ~InRange(c, point2_index) THEN SegmentPanic
        ELSE IF point_is_endpoint(c, point2_index)
        THEN [SegmentNone EXCEPT !.baseline = LineSegment(from, position_of(c, point2_index)),
                                 !.ctrl = LineSegment(position_of(c, point1_index), Pt(0, 0)),
                                 !.kind = "Quadratic"]
        ELSE
        LET point3_index == add_to_point_index(c, point_index, 3) IN
        IF ~InRange(c, point3_index) THEN SegmentPanic
        ELSE [SegmentNone EXCEPT !.baseline = LineSegment(from, position_of(c, point3_index)),
                                 !.ctrl = LineSegment(position_of(c, point1_index),
                                                      position_of(c, point2_index)),
                                 !.kind = "Cubic"]

prev_point_index_of(c, point_index) ==
    IF point_index = 0 THEN len(c) - 1 ELSE point_index - 1

\* next_point_index_of wrapping one index too late
next_point_index_of_late_wrap(c, point_index) ==
    IF point_index = len(c) THEN 0 ELSE point_index + 1

next_point_index_of(c, point_index) ==
    IF point_index = len(c) - 1 THEN 0 ELSE point_index + 1

\* point_is_logically_above without the tie-break on the index
point_is_logically_above_no_tie_break(c, a, b) ==
    LET a_y == c.points[a + 1].y
        b_y == c.points[b + 1].y
    IN  a_y < b_y

point_is_logically_above(c, a, b) ==
    LET a_y == c.points[a + 1].y
        b_y == c.points[b + 1].y
    IN  a_y < b_y \/ (a_y = b_y /\ a < b)

\* one turn of the loop of prev_endpoint_index_of / next_endpoint_index_of:
\* the new point_index, and the value returned if the loop returns (Option)
EndpointLoop(c, point_index) ==
    [point_index |-> point_index,
     returned |-> IF point_is_endpoint(c, point_index) THEN <<point_index>> ELSE <<>>]

\* prev_endpoint_index_of stepping with a prev_point_index_of that stays at 0
prev_endpoint_index_of_step_stuck(c, point_index) ==
    EndpointLoop(c, IF point_index = 0 THEN 0 ELSE point_index - 1)

prev_endpoint_index_of_step(c, point_index) ==
    EndpointLoop(c, prev_point_index_of(c, point_index))

next_endpoint_index_of_step(c, point_index) ==
    EndpointLoop(c, next_point_index_of(c, point_index))

RECURSIVE TransformFrom(_, _, _)
\* the loop of Contour::transform / apply_perspective from point_index on
TransformFrom(c, m, point_index) ==
    IF point_index >= len(c) THEN c
    ELSE LET point == m[position_of(c, point_index)]
         IN  TransformFrom(
                 Contour([c.points EXCEPT ![point_index + 1] = point], c.flags,
                         union_rect(c.bounds, point, point_index = 0)),
                 m, point_index + 1)

contour_transform(c, m) == TransformFrom(c, m, 0)
contour_apply_perspective(c, m) == TransformFrom(c, m, 0)

\* Contour::update_bounds on an Option<Rect>: <<>> is None, <<r>> is Some(r)
update_bounds(c, bounds) ==
    IF bounds = <<>> THEN <<c.bounds>> ELSE <<RectUnion(bounds[1], c.bounds)>>

----------------------------------------------------------------------------
(* PointIndex *)

\* A u32 is the function from bit position (0 the least significant) to bit.
\* The u32 arguments of the model are below 2^31.
U32 == [0..31 -> {0, 1}]
ToU32(n) == [i \in 0..31 |-> IF i = 31 THEN 0 ELSE (n \div (2 ^ i)) % 2]
Shl(a, k) == [i \in 0..31 |-> IF i >= k THEN a[i - k] ELSE 0]
Shr(a, k) == [i \in 0..31 |-> IF i + k <= 31 THEN a[i + k] ELSE 0]
BitOr(a, b) == [i \in 0..31 |-> IF a[i] = 1 \/ b[i] = 1 THEN 1 ELSE 0]
BitAnd(a, b) == [i \in 0..31 |-> IF a[i] = 1 /\ b[i] = 1 THEN 1 ELSE 0]

RECURSIVE FromBits(_, _)
\* the number whose bits i..30 are those of a (bit 31 clear)
FromBits(a, i) == IF i > 30 THEN 0 ELSE a[i] + 2 * FromBits(a, i + 1)
FromU32(a) == FromBits(a, 0)

\* the derived Ord of PointIndex: the order of the u32 values
U32Less(a, b) ==
    \E i \in 0..31 : a[i] < b[i] /\ \A j \in (i + 1)..31 : a[j] = b[j]

PointIndexPanic == [panic |-> TRUE]
PointIndex(value) == [panic |-> FALSE, value |-> value]

\* PointIndex::new packing the point ordinal above 16 bits only
PointIndexNewShift16(contour_ordinal, point_ordinal, dbg) ==
    IF dbg /\ ~(contour_ordinal <= 4095) THEN PointIndexPanic
    ELSE IF dbg /\ ~(point_ordinal <= 1048575) THEN PointIndexPanic
    ELSE PointIndex(BitOr(Shl(ToU32(contour_ordinal), 16), ToU32(point_ordinal)))

\* PointIndex::new(contour, point); dbg: built with debug assertions
PointIndexNew(contour_ordinal, point_ordinal, dbg) ==
    IF dbg /\ ~(contour_ordinal <= 4095) THEN PointIndexPanic
    ELSE IF dbg /\ ~(point_ordinal <= 1048575) THEN PointIndexPanic
    ELSE PointIndex(BitOr(Shl(ToU32(contour_ordinal), 20), ToU32(point_ordinal)))

PointIndexContour(self) == FromU32(Shr(self.value, 20))
PointIndexPoint(self) == FromU32(BitAnd(self.value, ToU32(1048575)))

----------------------------------------------------------------------------
(* ContourIter *)

\* Option<Segment>: <<>> is None, <<s>> is Some(s)
IterResult(item, index) == [item |-> item, index |-> index]

\* ContourIter::next that stops before the closing segment
iter_next_no_close(c, index, dbg) ==
    IF index >= len(c) THEN IterResult(<<>>, index)
    ELSE
    LET point0 == position_of(c, index - 1)
        point1_index == index
    IN  IF point_is_endpoint(c, point1_index)
        THEN IterResult(<<SegmentLine(LineSegment(point0, position_of(c, point1_index)))>>,
                        index + 1)
        ELSE IF ~InRange(c, index + 1) THEN IterResult(<<SegmentPanic>>, index + 1)
        ELSE IF point_is_endpoint(c, index + 1)
        THEN IterResult(<<SegmentQuadratic(LineSegment(point0, position_of(c, index + 1)),
                                           position_of(c, point1_index))>>, index + 2)
        ELSE IF ~InRange(c, index + 2) THEN IterResult(<<SegmentPanic>>, index + 2)
        ELSE IterResult(<<SegmentCubic(LineSegment(point0, position_of(c, index + 2)),
                                       LineSegment(position_of(c, point1_index),
                                                   position_of(c, index + 1)))>>, index + 3)

\* ContourIter::next on an iterator at `index`; dbg: built with debug assertions
iter_next(c, index, dbg) ==
    IF index = len(c) + 1 THEN IterResult(<<>>, index)
    ELSE
    LET point0_index == index - 1 IN
    IF ~InRange(c, point0_index) THEN IterResult(<<SegmentPanic>>, index)
    ELSE
    LET point0 == position_of(c, point0_index) IN
    IF index = len(c)
    THEN IterResult(<<SegmentLine(LineSegment(point0, position_of(c, 0)))>>, index + 1)
    ELSE
    LET point1_index == index IN
    IF ~InRange(c, point1_index) THEN IterResult(<<SegmentPanic>>, index + 1)
    ELSE
    LET point1 == position_of(c, point1_index) IN
    IF point_is_endpoint(c, point1_index)
    THEN IterResult(<<SegmentLine(LineSegment(point0, point1))>>, index + 1)
    ELSE
    LET point2_index == index + 1 IN
    IF ~InRange(c, point2_index) THEN IterResult(<<SegmentPanic>>, index + 1)
    ELSE
    LET point2 == position_of(c, point2_index) IN
    IF point_is_endpoint(c, point2_index)
    THEN IterResult(<<SegmentQuadratic(LineSegment(point0, point2), point1)>>, index + 2)
    ELSE
    LET point3_index == index + 2 IN
    IF ~InRange(c, point3_index) THEN IterResult(<<SegmentPanic>>, index + 2)
    ELSE
    LET point3 == position_of(c, point3_index) IN
    IF dbg /\ ~point_is_endpoint(c, point3_index)
    THEN IterResult(<<SegmentPanic>>, index + 3)
    ELSE IterResult(<<SegmentCubic(LineSegment(point0, point3),
                                   LineSegment(point1, point2))>>, index + 3)

----------------------------------------------------------------------------
(* Outline *)

Outline(contours, bounds) == [contours |-> contours, bounds |-> bounds]
OutlineNew == Outline(<<>>, RectZero)

FIRST_IN_SUBPATH == "FIRST_IN_SUBPATH"
CLOSES_SUBPATH == "CLOSES_SUBPATH"

\* the locals of Outline::from_segments
FsState(contours, current, bounds) ==
    [contours |-> contours, current |-> current, bounds |-> bounds]
FsInit == FsState(<<>>, ContourNew, <<>>)

\* the points a segment adds after its start point (lines 85-92)
PushGeometry(c, segment) ==
    LET c1 == IF segment.kind # "Line"
              THEN LET c2 == push_point(c, segment.ctrl.from, CONTROL_POINT_0)
                   IN  IF segment.kind # "Quadratic"
                       THEN push_point(c2, segment.ctrl.to, CONTROL_POINT_1)
                       ELSE c2
              ELSE c
    IN  push_point(c1, segment.baseline.to, PointFlagsEmpty)

\* the first-in-subpath branch of the loop body (lines 63-70)
FsFirst(st, segment) ==
    IF FIRST_IN_SUBPATH \in segment.flags
    THEN LET contours == IF ~is_empty(st.current)
                         THEN Append(st.contours, st.current)
                         ELSE st.contours
             current == IF ~is_empty(st.current) THEN ContourNew ELSE st.current
         IN  FsState(contours,
                     push_point(current, segment.baseline.from, PointFlagsEmpty),
                     st.bounds)
    ELSE st

\* the loop body handling closes-subpath after the segment's points are pushed
from_segments_step_close_last(st, segment) ==
    LET st1 == FsFirst(st, segment)
        st2 == IF segment.kind = "None" THEN st1
               ELSE FsState(st1.contours, PushGeometry(st1.current, segment), st1.bounds)
    IN  IF CLOSES_SUBPATH \in segment.flags /\ ~is_empty(st2.current)
        THEN FsState(Append(st2.contours, st2.current), ContourNew,
                     update_bounds(st2.current, st2.bounds))
        ELSE st2

\* the loop body starting a subpath without its start point
from_segments_step_no_seed(st, segment) ==
    LET st1 == IF FIRST_IN_SUBPATH \in segment.flags /\ ~is_empty(st.current)
               THEN FsState(Append(st.contours, st.current), ContourNew, st.bounds)
               ELSE st
    IN  IF CLOSES_SUBPATH \in segment.flags
        THEN IF ~is_empty(st1.current)
             THEN FsState(Append(st1.contours, st1.current), ContourNew,
                          update_bounds(st1.current, st1.bounds))
             ELSE st1
        ELSE IF segment.kind = "None" THEN st1
        ELSE FsState(st1.contours, PushGeometry(st1.current, segment), st1.bounds)

\* one pass of the loop body of Outline::from_segments
from_segments_step(st, segment) ==
    LET st1 == FsFirst(st, segment) IN
    IF CLOSES_SUBPATH \in segment.flags
    THEN IF ~is_empty(st1.current)
         THEN FsState(Append(st1.contours, st1.current), ContourNew,
                      update_bounds(st1.current, st1.bounds))
         ELSE st1
    ELSE IF segment.kind = "None" THEN st1
    ELSE FsState(st1.contours, PushGeometry(st1.current, segment), st1.bounds)

\* Outline::from_segments after the loop: the outline returned
from_segments_end(st) ==
    LET flush == ~is_empty(st.current)
        bounds == IF flush THEN update_bounds(st.current, st.bounds) ELSE st.bounds
        contours == IF flush THEN Append(st.contours, st.current) ELSE st.contours
    IN  Outline(contours, IF bounds # <<>> THEN bounds[1] ELSE OutlineNew.bounds)

RECURSIVE FsLoop(_, _)
FsLoop(st, segments) ==
    IF segments = <<>> THEN st
    ELSE FsLoop(from_segments_step(st, Head(segments)), Tail(segments))

from_segments(segments) == from_segments_end(FsLoop(FsInit, segments))

RECURSIVE ClipLoop(_, _, _, _)
\* the loop of clip_against_polygon / clip_against_rect from contour i on;
\* images[i] is what the clipper returns for the i-th contour
ClipLoop(images, i, contours, new_bounds) ==
    IF i > Len(images) THEN Outline(contours, IF new_bounds # <<>> THEN new_bounds[1]
                                              ELSE RectZero)
    ELSE LET c == images[i] IN
         IF ~is_empty(c)
         THEN ClipLoop(images, i + 1, Append(contours, c), update_bounds(c, new_bounds))
         ELSE ClipLoop(images, i + 1, contours, new_bounds)

RECURSIVE ClipLoopKeepEmpty(_, _, _, _)
ClipLoopKeepEmpty(images, i, contours, new_bounds) ==
    IF i > Len(images) THEN Outline(contours, IF new_bounds # <<>> THEN new_bounds[1]
                                              ELSE RectZero)
    ELSE ClipLoopKeepEmpty(images, i + 1, Append(contours, images[i]),
                           IF ~is_empty(images[i])
                           THEN update_bounds(images[i], new_bounds) ELSE new_bounds)

\* clip_against_rect pushing every clipped contour, empty or not
clip_against_rect_keep_empty(o, images) == ClipLoopKeepEmpty(images, 1, <<>>, <<>>)

clip_against_polygon(o, images) == ClipLoop(images, 1, <<>>, <<>>)
clip_against_rect(o, images) == ClipLoop(images, 1, <<>>, <<>>)

RECURSIVE OutlineTransformLoop(_, _, _, _)
\* the loop of Outline::transform / apply_perspective from contour i on
OutlineTransformLoop(contours, m, i, new_bounds) ==
    IF i > Len(contours) THEN Outline(contours, IF new_bounds # <<>> THEN new_bounds[1]
                                                ELSE RectZero)
    ELSE LET c == contour_transform(contours[i], m)
         IN  OutlineTransformLoop([contours EXCEPT ![i] = c], m, i + 1,
                                  update_bounds(c, new_bounds))

\* Outline::transform widening the bounds the outline already has
outline_transform_keep_bounds(o, m) == OutlineTransformLoop(o.contours, m, 1, <<o.bounds>>)

outline_transform(o, m) == OutlineTransformLoop(o.contours, m, 1, <<>>)
outline_apply_perspective(o, m) == OutlineTransformLoop(o.contours, m, 1, <<>>)

RECURSIVE IterCollect(_, _, _)
\* `for segment in contour.iter()` from an iterator at `index` on; a panic
\* ends the sequence
IterCollect(c, index, dbg) ==
    LET r == iter_next(c, index, dbg) IN
    IF r.item = <<>> THEN <<>>
    ELSE IF r.item[1].kind = "Panic" THEN <<SegmentPanic>>
    ELSE <<r.item[1]>> \o IterCollect(c, r.index, dbg)

RECURSIVE PushSegments(_, _, _)
\* `for segment in ... { self.push_segment(segment) }` from the i-th segment on
PushSegments(c, segments, i) ==
    IF i > Len(segments) THEN c
    ELSE PushSegments(push_segment(c, segments[i]), segments, i + 1)

\* Contour::make_monotonic; `decomposed` is what MonotonicConversionIter
\* returns for contour.iter()
contour_make_monotonic(c, decomposed) == PushSegments(take_left(c), decomposed, 1)

\* Outline::make_monotonic; decomposed[i] is the decomposer's output for the
\* i-th contour.  self.bounds is not written.
outline_make_monotonic(o, decomposed) ==
    Outline([i \in 1..Len(o.contours) |->
                contour_make_monotonic(o.contours[i], decomposed[i])],
            o.bounds)

----------------------------------------------------------------------------
(* impl Debug *)

\* "{} {}" of a point's coordinates
FmtPoint(p) == ToString(p.x) \o " " \o ToString(p.y)

\* what Contour's fmt writes for one segment of the iteration
FmtSegment(seg, segment_index) ==
    (IF segment_index = 0 THEN "M " \o FmtPoint(seg.baseline.from) ELSE "")
    \o (CASE seg.kind = "None" -> ""
           [] seg.kind = "Line" -> " L " \o FmtPoint(seg.baseline.to)
           [] seg.kind = "Quadratic" ->
                " Q " \o FmtPoint(seg.ctrl.from) \o " " \o FmtPoint(seg.baseline.to)
           [] seg.kind = "Cubic" ->
                " C " \o FmtPoint(seg.ctrl.from) \o " " \o FmtPoint(seg.ctrl.to)
                \o " " \o FmtPoint(seg.baseline.to)
           [] seg.kind = "Panic" -> "<panic>")

RECURSIVE DebugFrom(_, _, _, _)
\* the loop of Contour's fmt over self.iter().enumerate(), then " z"
DebugFrom(c, index, segment_index, dbg) ==
    LET r == iter_next(c, index, dbg) IN
    IF r.item = <<>> THEN " z"
    ELSE IF r.item[1].kind = "Panic" THEN "<panic>"
    ELSE FmtSegment(r.item[1], segment_index)
         \o DebugFrom(c, r.index, segment_index + 1, dbg)

DebugContour(c, dbg) == DebugFrom(c, 1, 0, dbg)

RECURSIVE DebugOutlineFrom(_, _, _)
DebugOutlineFrom(contours, contour_index, dbg) ==
    IF contour_index >= Len(contours) THEN ""
    ELSE (IF contour_index > 0 THEN " " ELSE "")
         \o DebugContour(contours[contour_index + 1], dbg)
         \o DebugOutlineFrom(contours, contour_index + 1, dbg)

DebugOutline(o, dbg) == DebugOutlineFrom(o.contours, 0, dbg)

----------------------------------------------------------------------------
(* Inputs *)

\* point mappings handed to transform / apply_perspective
FlipX == [p \in Point |-> Pt(10 - p.x, p.y)]
Transpose == [p \in Point |-> Pt(p.y, p.x)]
ProjectY == [p \in Point |-> Pt(p.x, 0)]
Collapse == [p \in Point |-> Pt(10, 10)]
Mappings == {FlipX, Transpose, ProjectY, Collapse}

CtrlPoint == {Pt(0, 10), Pt(10, 0)}
Lines == {SegmentLine(LineSegment(a, b)) : a \in Point, b \in Point}
Quadratics ==
    {SegmentQuadratic(LineSegment(a, b), c) : a \in Point, b \in Point, c \in CtrlPoint}
Cubics ==
    {SegmentCubic(LineSegment(a, b), LineSegment(c, d)) :
        a \in Point, b \in Point, c \in CtrlPoint, d \in CtrlPoint}
Segments == {SegmentNone} \cup Lines \cup Quadratics \cup Cubics

\* the segments of the streams handed to from_segments, over the corners
\* A = (0,0), B = (10,0), C = (10,10), D = (0,10)
PA == Pt(0, 0)
PB == Pt(10, 0)
PC == Pt(10, 10)
PD == Pt(0, 10)
LineAB == SegmentLine(LineSegment(PA, PB))
LineBC == SegmentLine(LineSegment(PB, PC))
LineCA == SegmentLine(LineSegment(PC, PA))
LineBA == SegmentLine(LineSegment(PB, PA))
LineCC == SegmentLine(LineSegment(PC, PC))
QuadBC == SegmentQuadratic(LineSegment(PB, PC), PD)
QuadCA == SegmentQuadratic(LineSegment(PC, PA), PD)
CubicAC == SegmentCubic(LineSegment(PA, PC), LineSegment(PD, PB))
StreamSegments ==
    {SegmentNone,
     WithFlags(SegmentNone, {FIRST_IN_SUBPATH}),
     WithFlags(LineAB, {FIRST_IN_SUBPATH}),
     LineAB,
     LineBC,
     WithFlags(LineBC, {FIRST_IN_SUBPATH}),
     LineCA,
     WithFlags(LineCA, {CLOSES_SUBPATH}),
     WithFlags(LineBA, {CLOSES_SUBPATH}),
     WithFlags(LineCC, {FIRST_IN_SUBPATH, CLOSES_SUBPATH}),
     QuadBC,
     WithFlags(QuadCA, {FIRST_IN_SUBPATH}),
     CubicAC,
     WithFlags(CubicAC, {FIRST_IN_SUBPATH}),
     WithFlags(CubicAC, {FIRST_IN_SUBPATH, CLOSES_SUBPATH})}

\* how many points push_segment appends to a non-empty contour
PointsOf(seg) ==
    CASE seg.kind = "None" -> 0
      [] seg.kind = "Line" -> 1
      [] seg.kind = "Quadratic" -> 2
      [] seg.kind = "Cubic" -> 3

\* scale by 2, as a Transform2DF32
Scale2 == [p \in Point |-> Pt(2 * p.x, 2 * p.y)]
OutlineMappings == Mappings \cup {Scale2}

\* a quadratic arch from A back to A over the control point C, and the two
\* halves de Casteljau's split at t = 1/2 (its x and y extremum) gives
PM == Pt(5, 5)
ArchQuad == SegmentQuadratic(LineSegment(PA, PA), PC)
ArchLeft == SegmentQuadratic(LineSegment(PA, PM), PM)
ArchRight == SegmentQuadratic(LineSegment(PM, PA), PM)

RECURSIVE SplitArch(_)
SplitArch(segments) ==
    IF segments = <<>> THEN <<>>
    ELSE (IF Head(segments) = ArchQuad THEN <<ArchLeft, ArchRight>>
          ELSE <<Head(segments)>>) \o SplitArch(Tail(segments))

\* what MonotonicConversionIter may return for the segments of a contour: the
\* segments as they are (all monotonic already), the arch split at its
\* extremum, or another sequence of segments
MonotonicConversion(segments) ==
    {segments, SplitArch(segments), <<>>, <<LineBC>>}

----------------------------------------------------------------------------
(* The endpoint / control-point alternation of a contour's flags *)

HasFlag(f, flag) == (f \div flag) % 2 = 1
IsEndpointFlags(f) == f = PointFlagsEmpty

\* first and last points are endpoints; a CONTROL_POINT_0 point follows an
\* endpoint; a CONTROL_POINT_1 point follows a CONTROL_POINT_0 point and
\* precedes an endpoint; no point has both flags
Alternates(c) ==
    LET n == Len(c.flags) IN
    /\ Len(c.points) = n
    /\ n > 0 => IsEndpointFlags(c.flags[1]) /\ IsEndpointFlags(c.flags[n])
    /\ \A i \in 1..n :
           /\ ~(HasFlag(c.flags[i], CONTROL_POINT_0) /\ HasFlag(c.flags[i], CONTROL_POINT_1))
           /\ HasFlag(c.flags[i], CONTROL_POINT_0) =>
                  i > 1 /\ IsEndpointFlags(c.flags[i - 1])
           /\ HasFlag(c.flags[i], CONTROL_POINT_1) =>
                  /\ i > 1 /\ c.flags[i - 1] = CONTROL_POINT_0
                  /\ i < n /\ IsEndpointFlags(c.flags[i + 1])

----------------------------------------------------------------------------
(* Variables a specification does not use stay at these values *)

IdleContour == contour = ContourNew
IdleIter == iter_index = 0 /\ yielded = <<>> /\ rebuilt = ContourNew /\ iter_done = FALSE
IdleFromSegments ==
    /\ stream = <<>> /\ outline = OutlineNew /\ current_contour = ContourNew
    /\ fs_bounds = <<>> /\ pc = "idle"
IdleClip == clip_images = <<>>
NoCall == [op |-> "none"]
IdleQuery == call = NoCall /\ ret = <<>>
IdleNav == cursor = 0 /\ nav_segment = SegmentNone /\ nav_op = "none" /\ nav_from = 0

iter_vars == <<iter_index, yielded, rebuilt, iter_done>>
fs_vars == <<stream, outline, current_contour, fs_bounds, pc>>
nav_vars == <<cursor, nav_segment, nav_op, nav_from>>
query_vars == <<call, ret>>

----------------------------------------------------------------------------
(* SpecContour: a contour under push_point, push_segment, take, transform *)

InitContour == IdleContour /\ IdleIter /\ IdleFromSegments /\ IdleClip /\ IdleNav /\ IdleQuery

PushPoint(point, flags) ==
    /\ iter_index = 0
    /\ len(contour) < MaxPoints
    /\ contour' = push_point(contour, point, flags)
    /\ UNCHANGED <<iter_vars, fs_vars, clip_images, nav_vars, query_vars>>

PushSegment(seg) ==
    /\ iter_index = 0
    /\ len(contour) + PointsOf(seg) + (IF is_empty(contour) THEN 1 ELSE 0) <= MaxPoints
    /\ contour' = push_segment(contour, seg)
    /\ UNCHANGED <<iter_vars, fs_vars, clip_images, nav_vars, query_vars>>

Take ==
    /\ iter_index = 0
    /\ contour' = take_left(contour)
    /\ UNCHANGED <<iter_vars, fs_vars, clip_images, nav_vars, query_vars>>

Transform(m) ==
    /\ contour' = contour_transform(contour, m)
    /\ UNCHANGED <<iter_vars, fs_vars, clip_images, nav_vars, query_vars>>

ApplyPerspective(m) ==
    /\ contour' = contour_apply_perspective(contour, m)
    /\ UNCHANGED <<iter_vars, fs_vars, clip_images, nav_vars, query_vars>>

NextContour ==
    \/ \E point \in Point, flags \in PushFlags : PushPoint(point, flags)
    \/ \E seg \in Segments : PushSegment(seg)
    \/ Take
    \/ \E m \in Mappings : Transform(m)
    \/ \E m \in Mappings : ApplyPerspective(m)

SpecContour == InitContour /\ [][NextContour]_vars

\* the exact box of a non-empty sequence of points
ExactBounds(points) ==
    LET xs == {points[i].x : i \in 1..Len(points)}
        ys == {points[i].y : i \in 1..Len(points)}
        min_x == CHOOSE v \in xs : \A w \in xs : v <= w
        max_x == CHOOSE v \in xs : \A w \in xs : v >= w
        min_y == CHOOSE v \in ys : \A w \in ys : v <= w
        max_y == CHOOSE v \in ys : \A w \in ys : v >= w
    IN  Rect(Pt(min_x, min_y), Size(max_x - min_x, max_y - min_y))

\* C3: the cached bounds of a non-empty contour are exactly the box
\* [min x, min y]-[max x, max y] of its points after every push_point,
\* push_segment, take, transform and apply_perspective; a contour of one point
\* has the zero-size box at that point, and an empty one the zero rectangle.
C3_BoundsExact ==
    /\ ~is_empty(contour) => contour.bounds = ExactBounds(contour.points)
    /\ len(contour) = 1 => contour.bounds = Rect(contour.points[1], SizeZero)
    /\ is_empty(contour) => contour.bounds = RectZero

\* C3 witness: a contour of three or more points, none at x = 0, spanning both
\* y values: its box starts at x = 10, not at the origin of the zero rectangle
C3_Witness ==
    /\ len(contour) >= 3
    /\ contour.bounds.origin = Pt(10, 0)
    /\ contour.bounds.size = Size(0, 10)

----------------------------------------------------------------------------
(* SpecNav: the index queries on a contour with any flags *)

\* the point stored at index i: a different point at every index
NavPoint(i) == Pt(i, 10 * i)

RECURSIVE NavContour(_)
NavContour(fs) ==
    IF fs = <<>> THEN ContourNew
    ELSE LET n == Len(fs)
         IN  push_point(NavContour(SubSeq(fs, 1, n - 1)), NavPoint(n - 1), fs[n])

NavContours ==
    {NavContour(fs) : fs \in UNION {[1..n -> PointFlagsAll] : n \in 0..MaxNav}}

InitNav ==
    /\ contour \in NavContours
    /\ IdleIter /\ IdleFromSegments /\ IdleClip /\ IdleNav /\ IdleQuery

NavNext ==
    /\ InRange(contour, cursor)
    /\ cursor' = next_point_index_of(contour, cursor)
    /\ nav_op' = "next"
    /\ nav_from' = cursor
    /\ UNCHANGED <<contour, iter_vars, fs_vars, clip_images, nav_segment, query_vars>>

NavPrev ==
    /\ InRange(contour, cursor)
    /\ cursor' = prev_point_index_of(contour, cursor)
    /\ nav_op' = "prev"
    /\ nav_from' = cursor
    /\ UNCHANGED <<contour, iter_vars, fs_vars, clip_images, nav_segment, query_vars>>

NavSegmentAfter(dbg) ==
    /\ InRange(contour, cursor)
    /\ nav_segment' = segment_after(contour, cursor, dbg)
    /\ nav_op' = "segment_after"
    /\ nav_from' = cursor
    /\ UNCHANGED <<contour, iter_vars, fs_vars, clip_images, cursor, query_vars>>

NextNav ==
    \/ NavNext
    \/ NavPrev
    \/ \E dbg \in BOOLEAN : NavSegmentAfter(dbg)

SpecNav == InitNav /\ [][NextNav]_vars

\* what the specification says segment_after(i) is, with indices taken mod N
ExpectedSegmentAfter(c, i) ==
    LET n == len(c)
        at(k) == c.points[((i + k) % n) + 1]
        endpoint(k) == c.flags[((i + k) % n) + 1] = PointFlagsEmpty
    IN  IF endpoint(1)
        THEN [kind |-> "Line", baseline |-> LineSegment(at(0), at(1)),
              ctrl |-> LineSegmentDefault, flags |-> {}]
        ELSE IF endpoint(2)
        THEN [kind |-> "Quadratic", baseline |-> LineSegment(at(0), at(2)),
              ctrl |-> LineSegment(at(1), Pt(0, 0)), flags |-> {}]
        ELSE [kind |-> "Cubic", baseline |-> LineSegment(at(0), at(3)),
              ctrl |-> LineSegment(at(1), at(2)), flags |-> {}]

\* C8: called at an endpoint index i of a contour of length N, segment_after
\* returns the segment from points[i]: a Line to points[(i+1) mod N] if that is
\* an endpoint, else a Quadratic through points[(i+1) mod N] to
\* points[(i+2) mod N] if that is an endpoint, else a Cubic through the next two
\* points to points[(i+3) mod N]; no read leaves 0..N-1 (no panic), also when
\* the segment spans the end of the array.
C8_SegmentAfterWraps ==
    (nav_op = "segment_after" /\ point_is_endpoint(contour, nav_from)) =>
        /\ nav_segment.kind # "Panic"
        /\ nav_segment = ExpectedSegmentAfter(contour, nav_from)

\* C8 witness: a cubic read across the end of the array, from index N-2 over
\* points N-1 and 0 to point 1
C8_Witness ==
    /\ nav_op = "segment_after"
    /\ len(contour) = 4
    /\ nav_from = 2
    /\ point_is_endpoint(contour, 2)
    /\ nav_segment.kind = "Cubic"
    /\ nav_segment.baseline = LineSegment(NavPoint(2), NavPoint(1))
    /\ nav_segment.ctrl = LineSegment(NavPoint(3), NavPoint(0))

RECURSIVE NextTimes(_, _, _)
\* next_point_index_of applied k times
NextTimes(c, k, i) ==
    IF k = 0 THEN i ELSE next_point_index_of(c, NextTimes(c, k - 1, i))

\* C9: in a non-empty contour of length N, for every index i in 0..N-1, next
\* and prev point index are inverse to each other, both stay in 0..N-1, N
\* applications of next return to i and, when N > 1, no fewer do; a step a
\* caller has taken is undone by the opposite one.
C9_CircularIndexClosure ==
    /\ ~is_empty(contour) =>
         \A i \in 0..(len(contour) - 1) :
            /\ InRange(contour, next_point_index_of(contour, i))
            /\ InRange(contour, prev_point_index_of(contour, i))
            /\ next_point_index_of(contour, prev_point_index_of(contour, i)) = i
            /\ prev_point_index_of(contour, next_point_index_of(contour, i)) = i
            /\ NextTimes(contour, len(contour), i) = i
            /\ \A k \in 1..(len(contour) - 1) : NextTimes(contour, k, i) # i
    /\ nav_op = "next" => prev_point_index_of(contour, cursor) = nav_from
    /\ nav_op = "prev" => next_point_index_of(contour, cursor) = nav_from

\* C9 witness: a step forward from the last index of a contour of three or
\* more points has wrapped to index 0
C9_Witness ==
    /\ nav_op = "next"
    /\ len(contour) >= 3
    /\ nav_from = len(contour) - 1
    /\ cursor = 0

----------------------------------------------------------------------------
(* SpecIter: a contour built by push_segment is iterated, and every segment *)
(* the iterator yields is pushed onto a new contour (the loop of            *)
(* Contour::make_monotonic, with the segments passed through unchanged)     *)

InitIter == IdleContour /\ IdleIter /\ IdleFromSegments /\ IdleClip /\ IdleNav /\ IdleQuery

\* the start point of a subpath: push_point(from, PointFlags::empty()) on an
\* empty contour
SeedPoint(point) ==
    /\ iter_index = 0
    /\ is_empty(contour)
    /\ contour' = push_point(contour, point, PointFlagsEmpty)
    /\ UNCHANGED <<iter_vars, fs_vars, clip_images, nav_vars, query_vars>>

\* contour.iter(): the iterator borrows the contour, which no push can change
\* until the iterator is dropped
IterBegin ==
    /\ iter_index = 0
    /\ iter_index' = 1
    /\ yielded' = <<>>
    /\ rebuilt' = ContourNew
    /\ iter_done' = FALSE
    /\ UNCHANGED <<contour, fs_vars, clip_images, nav_vars, query_vars>>

Panicked == yielded # <<>> /\ yielded[Len(yielded)].kind = "Panic"

IterNext(dbg) ==
    /\ iter_index # 0
    /\ ~iter_done
    /\ ~Panicked
    /\ LET r == iter_next(contour, iter_index, dbg) IN
         /\ iter_index' = r.index
         /\ IF r.item = <<>>
            THEN /\ iter_done' = TRUE
                 /\ UNCHANGED <<yielded, rebuilt>>
            ELSE /\ iter_done' = FALSE
                 /\ yielded' = Append(yielded, r.item[1])
                 /\ rebuilt' = IF r.item[1].kind = "Panic" THEN rebuilt
                               ELSE push_segment(rebuilt, r.item[1])
    /\ UNCHANGED <<contour, fs_vars, clip_images, nav_vars, query_vars>>

IterDrop ==
    /\ iter_done
    /\ iter_index' = 0
    /\ yielded' = <<>>
    /\ rebuilt' = ContourNew
    /\ iter_done' = FALSE
    /\ UNCHANGED <<contour, fs_vars, clip_images, nav_vars, query_vars>>

NextIter ==
    \/ \E point \in Point : SeedPoint(point)
    \/ \E seg \in Segments : PushSegment(seg)
    \/ Take
    \/ IterBegin
    \/ \E dbg \in BOOLEAN : IterNext(dbg)
    \/ IterDrop

SpecIter == InitIter /\ [][NextIter]_vars

NumEndpoints(c) == Cardinality({i \in 1..Len(c.flags) : c.flags[i] = PointFlagsEmpty})

\* C1 as stated: once the iterator is exhausted, the contour rebuilt from its
\* segments has the points and flags of the contour iterated.
C1_RoundTripAsStated ==
    iter_done => /\ rebuilt.points = contour.points
                 /\ rebuilt.flags = contour.flags

\* C1 amended: the contour rebuilt from the segments of a non-empty contour C
\* has C's points and flags followed by one more endpoint, a copy of C's first
\* point (the target of the closing segment), and C's bounds; only the empty
\* contour is rebuilt identically.
C1_RoundTripAppendsStart ==
    iter_done =>
        IF is_empty(contour)
        THEN rebuilt = ContourNew
        ELSE /\ rebuilt.points = Append(contour.points, contour.points[1])
             /\ rebuilt.flags = Append(contour.flags, PointFlagsEmpty)
             /\ rebuilt.bounds = contour.bounds

\* C1 witness: a contour with a curve has been iterated to the end and rebuilt
C1_Witness ==
    /\ iter_done
    /\ len(contour) >= 4
    /\ NumEndpoints(contour) < len(contour)
    /\ len(rebuilt) = len(contour) + 1

C20_EncodingWellFormed ==
    /\ Alternates(contour)
    /\ push_segment(contour, SegmentNone) = contour
    /\ ~Panicked
    /\ Alternates(rebuilt)

\* C20 witness: a line then a quadratic were pushed, and the contour iterated
\* to the end
C20_Witness ==
    /\ iter_done
    /\ contour.flags = <<PointFlagsEmpty, PointFlagsEmpty, CONTROL_POINT_0, PointFlagsEmpty>>
    /\ Len(yielded) = 3
    /\ yielded[2].kind = "Quadratic"

----------------------------------------------------------------------------
(* SpecFromSegments: Outline::from_segments consuming a stream *)

InitFromSegments ==
    /\ IdleContour /\ IdleIter /\ IdleClip /\ IdleNav /\ IdleQuery
    /\ stream = <<>>
    /\ outline = OutlineNew
    /\ current_contour = ContourNew
    /\ fs_bounds = <<>>
    /\ pc = "loop"

\* the loop takes the next segment of the stream
FromSegmentsStep(seg) ==
    /\ pc = "loop"
    /\ Len(stream) < MaxStream
    /\ LET st == from_segments_step(
                     FsState(outline.contours, current_contour, fs_bounds), seg)
       IN  /\ outline' = [outline EXCEPT !.contours = st.contours]
           /\ current_contour' = st.current
           /\ fs_bounds' = st.bounds
    /\ stream' = Append(stream, seg)
    /\ UNCHANGED <<contour, iter_vars, pc, clip_images, nav_vars, query_vars>>

\* the stream ends: last flush, and the outline is returned
FromSegmentsEnd ==
    /\ pc = "loop"
    /\ outline' = from_segments_end(FsState(outline.contours, current_contour, fs_bounds))
    /\ pc' = "done"
    /\ UNCHANGED <<contour, iter_vars, stream, current_contour, fs_bounds,
                   clip_images, nav_vars, query_vars>>

NextFromSegments ==
    \/ \E seg \in StreamSegments : FromSegmentsStep(seg)
    \/ FromSegmentsEnd

SpecFromSegments == InitFromSegments /\ [][NextFromSegments]_vars

RECURSIVE UnionOfBounds(_)
\* the union, in order, of the bounds of a non-empty sequence of contours
UnionOfBounds(contours) ==
    IF Len(contours) = 1 THEN contours[1].bounds
    ELSE RectUnion(UnionOfBounds(SubSeq(contours, 1, Len(contours) - 1)),
                   contours[Len(contours)].bounds)

\* C2: the bounds of the outline from_segments returns are the union of the
\* bounds of all the contours it pushed, whichever trigger flushed them, and
\* the empty box when it pushed none.
C2_AggregateBounds ==
    pc = "done" =>
        outline.bounds = IF outline.contours = <<>> THEN RectZero
                         ELSE UnionOfBounds(outline.contours)

\* C2 failing input: two subpaths, the first flushed by the second's
\* first-in-subpath segment
C2_FailingInput ==
    /\ pc = "done"
    /\ stream = <<WithFlags(LineAB, {FIRST_IN_SUBPATH}), WithFlags(LineBC, {FIRST_IN_SUBPATH})>>
    /\ outline.bounds = Rect(PB, Size(0, 10))

CubicBoth == WithFlags(CubicAC, {FIRST_IN_SUBPATH, CLOSES_SUBPATH})
CubicFirst == WithFlags(CubicAC, {FIRST_IN_SUBPATH})
CubicContour ==
    Contour(<<PA, PD, PB, PC>>,
            <<PointFlagsEmpty, CONTROL_POINT_0, CONTROL_POINT_1, PointFlagsEmpty>>,
            Rect(PA, Size(10, 10)))

\* C4 as stated: the single cubic from (0,0) to (10,10) with controls (0,10)
\* and (10,0), flagged first-in-subpath and closes-subpath, gives one contour
\* of the 4 points (0,0),(0,10),(10,0),(10,10) with flags none, CONTROL_POINT_0,
\* CONTROL_POINT_1, none.
C4_CubicAsStated ==
    (pc = "done" /\ stream = <<CubicBoth>>) =>
        /\ Len(outline.contours) = 1
        /\ outline.contours[1].points = CubicContour.points
        /\ outline.contours[1].flags = CubicContour.flags

\* C4 amended: flagged first-in-subpath and closes-subpath, the single cubic
\* gives one contour holding only its start point (0,0), an endpoint (the
\* geometry of a closes-subpath segment is not stored); flagged
\* first-in-subpath only, it gives the one contour of 4 points
\* (0,0),(0,10),(10,0),(10,10) with flags none, CONTROL_POINT_0,
\* CONTROL_POINT_1, none.
C4_CubicScenario ==
    /\ (pc = "done" /\ stream = <<CubicBoth>>) =>
          outline = Outline(<<Contour(<<PA>>, <<PointFlagsEmpty>>, Rect(PA, SizeZero))>>,
                            Rect(PA, SizeZero))
    /\ (pc = "done" /\ stream = <<CubicFirst>>) =>
          outline = Outline(<<CubicContour>>, CubicContour.bounds)

\* C4 witness: from_segments has returned on the stream of the one cubic
\* flagged first-in-subpath and closes-subpath
C4_Witness == pc = "done" /\ stream = <<CubicBoth>>

\* n >= 2 lines, the first flagged first-in-subpath, the last closes-subpath,
\* each starting where the one before ends and the last ending at the start
IsClosedPolygon(s) ==
    /\ Len(s) >= 2
    /\ \A i \in 1..Len(s) : s[i].kind = "Line"
    /\ s[1].flags = {FIRST_IN_SUBPATH}
    /\ s[Len(s)].flags = {CLOSES_SUBPATH}
    /\ \A i \in 2..(Len(s) - 1) : s[i].flags = {}
    /\ \A i \in 1..(Len(s) - 1) : s[i].baseline.to = s[i + 1].baseline.from
    /\ s[Len(s)].baseline.to = s[1].baseline.from

PolygonVertices(s) == [i \in 1..Len(s) |-> s[i].baseline.from]

\* C5: from a closed polygon of n >= 2 lines from_segments returns exactly one
\* contour, of exactly n points, the polygon's vertices in stream order, all
\* endpoints; the closing line adds no point; the bounds of the contour and of
\* the outline are the polygon's box.
C5_ClosedPolygon ==
    (pc = "done" /\ IsClosedPolygon(stream)) =>
        LET vertices == PolygonVertices(stream) IN
        /\ Len(outline.contours) = 1
        /\ outline.contours[1].points = vertices
        /\ outline.contours[1].flags = [i \in 1..Len(stream) |-> PointFlagsEmpty]
        /\ outline.contours[1].bounds = ExactBounds(vertices)
        /\ outline.bounds = ExactBounds(vertices)

\* C5 witness: the outline of the triangle A, B, C
C5_Witness ==
    /\ pc = "done"
    /\ IsClosedPolygon(stream)
    /\ PolygonVertices(stream) = <<PA, PB, PC>>

Contours(o) == {o.contours[i] : i \in 1..Len(o.contours)}
AllEndpoints(c) == \A i \in 1..Len(c.flags) : c.flags[i] = PointFlagsEmpty

\* C6 as stated: the contour of three endpoints p0, p1, p2 renders as
\* "M x0 y0 L x1 y1 L x2 y2 z", the 4-point cubic contour as
\* "M 0 0 C 0 10 10 0 10 10 z".
C6_DebugAsStated ==
    pc = "done" =>
        \A c \in Contours(outline), dbg \in BOOLEAN :
            /\ (len(c) = 3 /\ AllEndpoints(c)) =>
                  DebugContour(c, dbg) =
                      "M " \o FmtPoint(c.points[1]) \o " L " \o FmtPoint(c.points[2])
                      \o " L " \o FmtPoint(c.points[3]) \o " z"
            /\ c = CubicContour => DebugContour(c, dbg) = "M 0 0 C 0 10 10 0 10 10 z"

\* the group of one segment
ExpectedGroup(seg) ==
    CASE seg.kind = "Line" ->
           " L " \o ToString(seg.baseline.to.x) \o " " \o ToString(seg.baseline.to.y)
      [] seg.kind = "Quadratic" ->
           " Q " \o ToString(seg.ctrl.from.x) \o " " \o ToString(seg.ctrl.from.y)
           \o " " \o ToString(seg.baseline.to.x) \o " " \o ToString(seg.baseline.to.y)
      [] seg.kind = "Cubic" ->
           " C " \o ToString(seg.ctrl.from.x) \o " " \o ToString(seg.ctrl.from.y)
           \o " " \o ToString(seg.ctrl.to.x) \o " " \o ToString(seg.ctrl.to.y)
           \o " " \o ToString(seg.baseline.to.x) \o " " \o ToString(seg.baseline.to.y)
      [] OTHER -> "?"

RECURSIVE ExpectedGroups(_, _)
\* the groups of the segments that start at the endpoints i, i+1, ... of c,
\* the last of them the segment that closes back to point 0
ExpectedGroups(c, i) ==
    IF i >= len(c) THEN ""
    ELSE (IF c.flags[i + 1] = PointFlagsEmpty
          THEN ExpectedGroup(segment_after(c, i, FALSE)) ELSE "")
         \o ExpectedGroups(c, i + 1)

ExpectedDebug(c) ==
    "M " \o ToString(c.points[1].x) \o " " \o ToString(c.points[1].y)
    \o ExpectedGroups(c, 0) \o " z"

RECURSIVE JoinDebug(_, _)
\* the contours' strings with one space between neighbours
JoinDebug(contours, dbg) ==
    IF contours = <<>> THEN ""
    ELSE IF Len(contours) = 1 THEN DebugContour(contours[1], dbg)
    ELSE JoinDebug(SubSeq(contours, 1, Len(contours) - 1), dbg) \o " "
         \o DebugContour(contours[Len(contours)], dbg)

\* C6 amended: a contour that starts at an endpoint renders as "M x y" of its
\* start point, then one " L x y", " Q cx cy x y" or " C c1x c1y c2x c2y x y"
\* group per segment, the closing line back to the start point included, then
\* " z": the contour of three endpoints p0, p1, p2 renders as
\* "M x0 y0 L x1 y1 L x2 y2 L x0 y0 z" and the 4-point cubic contour as
\* "M 0 0 C 0 10 10 0 10 10 L 0 0 z"; an outline renders as its contours'
\* strings in order, separated by single spaces.
C6_DebugLayout ==
    pc = "done" =>
        \A dbg \in BOOLEAN :
            /\ \A c \in Contours(outline) :
                 /\ c.flags[1] = PointFlagsEmpty => DebugContour(c, dbg) = ExpectedDebug(c)
                 /\ (len(c) = 3 /\ AllEndpoints(c)) =>
                       DebugContour(c, dbg) =
                           "M " \o FmtPoint(c.points[1]) \o " L " \o FmtPoint(c.points[2])
                           \o " L " \o FmtPoint(c.points[3])
                           \o " L " \o FmtPoint(c.points[1]) \o " z"
                 /\ c.points = <<PA, PB, PC>> /\ AllEndpoints(c) =>
                       DebugContour(c, dbg) = "M 0 0 L 10 0 L 10 10 L 0 0 z"
                 /\ c = CubicContour =>
                       DebugContour(c, dbg) = "M 0 0 C 0 10 10 0 10 10 L 0 0 z"
            /\ DebugOutline(outline, dbg) = JoinDebug(outline.contours, dbg)

\* C6 witness: an outline of the triangle A, B, C followed by the cubic contour
C6_Witness ==
    /\ pc = "done"
    /\ Len(outline.contours) = 2
    /\ outline.contours[1].points = <<PA, PB, PC>>
    /\ AllEndpoints(outline.contours[1])
    /\ outline.contours[2] = CubicContour

\* C13: from_segments never returns an outline with a contour that starts
\* with a control point or otherwise breaks the alternation: on a stream that
\* would build one it stops with a fatal assertion instead of returning.
C13_MalformedFailsFast ==
    pc = "done" => \A i \in 1..Len(outline.contours) : Alternates(outline.contours[i])

\* C13 failing input: a quadratic that is not first-in-subpath arrives while
\* the contour in progress is empty; the outline is returned all the same
C13_FailingInput ==
    /\ pc = "done"
    /\ stream = <<QuadBC>>
    /\ Len(outline.contours) = 1
    /\ outline.contours[1].points = <<PD, PC>>
    /\ outline.contours[1].flags = <<CONTROL_POINT_0, PointFlagsEmpty>>

----------------------------------------------------------------------------
(* SpecClip: an outline built by from_segments is clipped *)

ClipStreams == UNION {[1..n -> StreamSegments] : n \in 0..MaxClipStream}

\* what a clipper may return: nothing, or a contour with its own bounds
ClipResults ==
    {ContourNew,
     push_point(ContourNew, PC, PointFlagsEmpty),
     push_segment(ContourNew, LineAB),
     push_segment(push_segment(ContourNew, LineBC), LineCA),
     push_segment(push_segment(ContourNew, LineCA), QuadBC)}

\* the outlines from_segments returns on these streams
ClipOutlines == {from_segments(s) : s \in ClipStreams}

InitClip ==
    /\ IdleContour /\ IdleIter /\ IdleClip /\ IdleNav /\ IdleQuery
    /\ stream = <<>>
    /\ outline \in ClipOutlines
    /\ current_contour = ContourNew
    /\ fs_bounds = <<>>
    /\ pc = "done"

ClipAgainstPolygon(images) ==
    /\ outline' = clip_against_polygon(outline, images)
    /\ clip_images' = images
    /\ pc' = "clipped"
    /\ UNCHANGED <<contour, iter_vars, stream, current_contour, fs_bounds, nav_vars, query_vars>>

ClipAgainstRect(images) ==
    /\ outline' = clip_against_rect(outline, images)
    /\ clip_images' = images
    /\ pc' = "clipped"
    /\ UNCHANGED <<contour, iter_vars, stream, current_contour, fs_bounds, nav_vars, query_vars>>

NextClip ==
    \/ \E images \in [1..Len(outline.contours) -> ClipResults] : ClipAgainstPolygon(images)
    \/ \E images \in [1..Len(outline.contours) -> ClipResults] : ClipAgainstRect(images)

SpecClip == InitClip /\ [][NextClip]_vars

NonEmptyContour(c) == c.points # <<>>

\* C10: after clip_against_polygon / clip_against_rect, whatever the clipper
\* returned for each contour, the outline's contours are the clipper's results
\* in the order of the contours clipped with every empty result left out, and
\* its bounds are the union of the survivors' bounds; when nothing survives
\* the outline has no contours and the empty box.
C10_ClipOrchestration ==
    pc = "clipped" =>
        LET survivors == SelectSeq(clip_images, NonEmptyContour) IN
        /\ outline.contours = survivors
        /\ outline.bounds = IF survivors = <<>> THEN RectZero ELSE UnionOfBounds(survivors)
        /\ (\A i \in 1..Len(clip_images) : clip_images[i] = ContourNew) =>
               outline = Outline(<<>>, RectZero)

\* C10 witness: of two contours clipped, the first came back empty and the
\* second did not
C10_Witness ==
    /\ pc = "clipped"
    /\ Len(clip_images) = 2
    /\ clip_images[1] = ContourNew
    /\ clip_images[2] # ContourNew
    /\ Len(outline.contours) = 1

----------------------------------------------------------------------------
(* SpecOutline: an outline built by from_segments is transformed, then made *)
(* monotonic *)

\* the streams whose outlines are operated on: no contour, one, two (the
\* second one flushing the first, or after a closed one), curves, the arch
OutlineStreams ==
    {<<>>,
     <<WithFlags(LineAB, {FIRST_IN_SUBPATH})>>,
     <<WithFlags(LineAB, {FIRST_IN_SUBPATH}), LineBC>>,
     <<WithFlags(LineAB, {FIRST_IN_SUBPATH}), WithFlags(LineBC, {FIRST_IN_SUBPATH})>>,
     <<WithFlags(LineAB, {FIRST_IN_SUBPATH}), LineBC, WithFlags(LineCA, {CLOSES_SUBPATH}),
       WithFlags(QuadCA, {FIRST_IN_SUBPATH})>>,
     <<WithFlags(QuadCA, {FIRST_IN_SUBPATH}), LineAB>>,
     <<WithFlags(CubicAC, {FIRST_IN_SUBPATH}), WithFlags(LineCA, {CLOSES_SUBPATH}),
       WithFlags(LineAB, {FIRST_IN_SUBPATH})>>,
     <<WithFlags(ArchQuad, {FIRST_IN_SUBPATH})>>}

OutlineInputs == {from_segments(s) : s \in OutlineStreams}

InitOutline ==
    /\ IdleContour /\ IdleIter /\ IdleClip /\ IdleNav /\ IdleQuery
    /\ stream = <<>>
    /\ outline \in OutlineInputs
    /\ current_contour = ContourNew
    /\ fs_bounds = <<>>
    /\ pc = "done"

\* the points of every contour of the outline
OutlinePoints(o) ==
    UNION {{o.contours[i].points[j] : j \in 1..Len(o.contours[i].points)} :
              i \in 1..Len(o.contours)}

OutlineTransform(m) ==
    /\ pc \in {"done", "transformed"}
    /\ OutlinePoints(outline) \subseteq DOMAIN m
    /\ outline' = outline_transform(outline, m)
    /\ pc' = "transformed"
    /\ UNCHANGED <<contour, iter_vars, stream, current_contour, fs_bounds,
                   clip_images, nav_vars, query_vars>>

OutlineApplyPerspective(m) ==
    /\ pc \in {"done", "transformed"}
    /\ OutlinePoints(outline) \subseteq DOMAIN m
    /\ outline' = outline_apply_perspective(outline, m)
    /\ pc' = "transformed"
    /\ UNCHANGED <<contour, iter_vars, stream, current_contour, fs_bounds,
                   clip_images, nav_vars, query_vars>>

\* the decomposer's possible outputs, contour by contour
Decompositions(o, dbg) ==
    {d \in [1..Len(o.contours) ->
               UNION {MonotonicConversion(IterCollect(o.contours[i], 1, dbg)) :
                         i \in 1..Len(o.contours)}] :
        \A i \in 1..Len(o.contours) :
            d[i] \in MonotonicConversion(IterCollect(o.contours[i], 1, dbg))}

OutlineMakeMonotonic(decomposed) ==
    /\ pc \in {"done", "transformed"}
    /\ outline' = outline_make_monotonic(outline, decomposed)
    /\ pc' = "monotonic"
    /\ UNCHANGED <<contour, iter_vars, stream, current_contour, fs_bounds,
                   clip_images, nav_vars, query_vars>>

NextOutline ==
    \/ \E m \in OutlineMappings : OutlineTransform(m)
    \/ \E m \in OutlineMappings : OutlineApplyPerspective(m)
    \/ \E dbg \in BOOLEAN : \E decomposed \in Decompositions(outline, dbg) :
           OutlineMakeMonotonic(decomposed)

SpecOutline == InitOutline /\ [][NextOutline]_vars

Box(min_x, min_y, max_x, max_y) ==
    Rect(Pt(min_x, min_y), Size(max_x - min_x, max_y - min_y))

\* contour d is contour c with every point mapped by m and nothing else changed
MappedContour(c, d, m) ==
    /\ d.flags = c.flags
    /\ Len(d.points) = Len(c.points)
    /\ \A j \in 1..Len(c.points) : d.points[j] = m[c.points[j]]
    /\ d.bounds = IF d.points = <<>> THEN c.bounds ELSE ExactBounds(d.points)

\* C11: a step of Outline::transform / apply_perspective with a point mapping
\* m replaces every point p of every contour by m[p], keeps the number and
\* order of the contours, the number of points of each and every flag,
\* leaves each contour with the exact box of its mapped points, and sets the
\* outline's bounds to the union of those boxes whatever they were before
\* (the empty box when there is no contour); scaling by 2 an outline whose
\* bounds are [0,0]-[10,10] gives the bounds [0,0]-[20,20].
C11_OutlineTransform ==
    [][pc' = "transformed" =>
          \E m \in OutlineMappings :
              /\ OutlinePoints(outline) \subseteq DOMAIN m
              /\ Len(outline'.contours) = Len(outline.contours)
              /\ \A i \in 1..Len(outline.contours) :
                     MappedContour(outline.contours[i], outline'.contours[i], m)
              /\ outline'.bounds = IF outline'.contours = <<>> THEN RectZero
                                   ELSE UnionOfBounds(outline'.contours)
              /\ (m = Scale2 /\ outline.contours # <<>>
                  /\ UnionOfBounds(outline.contours) = Box(0, 0, 10, 10))
                     => outline'.bounds = Box(0, 0, 20, 20)]_vars

\* C11 witness: two contours scaled by 2, the outline's bounds now [0,0]-[20,20]
C11_Witness ==
    /\ pc = "transformed"
    /\ Len(outline.contours) = 2
    /\ Pt(20, 20) \in OutlinePoints(outline)
    /\ outline.bounds = Box(0, 0, 20, 20)

\* C12: after Outline::make_monotonic, whatever the decomposer returned for
\* each contour, every contour's bounds are the exact box of its new points
\* (the zero rectangle when it has none) and the outline's bounds are the
\* union of the contours' new bounds.
C12_MonotonicBounds ==
    pc = "monotonic" =>
        /\ \A i \in 1..Len(outline.contours) :
               outline.contours[i].bounds =
                   IF is_empty(outline.contours[i]) THEN RectZero
                   ELSE ExactBounds(outline.contours[i].points)
        /\ outline.contours # <<>> => outline.bounds = UnionOfBounds(outline.contours)

\* C12 failing input: the arch, split at its extremum by the decomposer; the
\* outline keeps the bounds [0,0]-[10,10] of the control point it no longer has
C12_FailingInput ==
    /\ pc = "monotonic"
    /\ Len(outline.contours) = 1
    /\ outline.contours[1].points = <<PA, PM, PM, PM, PA, PA>>
    /\ outline.contours[1].bounds = Box(0, 0, 5, 5)
    /\ outline.bounds = Box(0, 0, 10, 10)

----------------------------------------------------------------------------
(* SpecQuery: one call of the query API on a contour with any flags, or of  *)
(* PointIndex::new                                                          *)

\* points at two heights, so that some share their y and some do not
QueryPoint(i) == Pt(i, 10 * (i % 2))
QueryFlags == {PointFlagsEmpty, CONTROL_POINT_0, CONTROL_POINT_1}

RECURSIVE QueryContour(_)
\* the contour push_point builds from the points QueryPoint(0..) with flags fs
QueryContour(fs) ==
    IF fs = <<>> THEN ContourNew
    ELSE push_point(QueryContour(SubSeq(fs, 1, Len(fs) - 1)),
                    QueryPoint(Len(fs) - 1), fs[Len(fs)])

QueryContours == {QueryContour(fs) : fs \in UNION {[1..n -> QueryFlags] : n \in 0..MaxQuery}}

\* ordinals at and around the ends of the 12-bit and 20-bit fields
ContourOrdinals == {0, 1, 2047, 4095, 4096, 4097}
PointOrdinals == {0, 1, 524288, 1048575, 1048576, 1048577}

InitQuery ==
    /\ contour \in QueryContours
    /\ IdleIter /\ IdleFromSegments /\ IdleClip /\ IdleNav /\ IdleQuery

CallAddToPointIndex(point_index, addend) ==
    /\ call = NoCall
    /\ InRange(contour, point_index)
    /\ call' = [op |-> "add_to_point_index", point_index |-> point_index, addend |-> addend]
    /\ ret' = <<add_to_point_index(contour, point_index, addend)>>
    /\ UNCHANGED <<contour, iter_vars, fs_vars, clip_images, nav_vars>>

CallPointIsLogicallyAbove(a, b) ==
    /\ call = NoCall
    /\ InRange(contour, a) /\ InRange(contour, b)
    /\ call' = [op |-> "point_is_logically_above", a |-> a, b |-> b]
    /\ ret' = <<point_is_logically_above(contour, a, b)>>
    /\ UNCHANGED <<contour, iter_vars, fs_vars, clip_images, nav_vars>>

CallSegmentAfter(point_index, dbg) ==
    /\ call = NoCall
    /\ InRange(contour, point_index)
    /\ call' = [op |-> "segment_after", point_index |-> point_index, dbg |-> dbg]
    /\ ret' = <<segment_after(contour, point_index, dbg)>>
    /\ UNCHANGED <<contour, iter_vars, fs_vars, clip_images, nav_vars>>

\* `for segment in contour.iter()`, collecting
CallIter(dbg) ==
    /\ call = NoCall
    /\ call' = [op |-> "iter", dbg |-> dbg]
    /\ ret' = <<IterCollect(contour, 1, dbg)>>
    /\ UNCHANGED <<contour, iter_vars, fs_vars, clip_images, nav_vars>>

CallPointIndexNew(contour_ordinal, point_ordinal, dbg) ==
    /\ call = NoCall
    /\ call' = [op |-> "PointIndex::new", contour |-> contour_ordinal,
                point |-> point_ordinal, dbg |-> dbg]
    /\ ret' = <<PointIndexNew(contour_ordinal, point_ordinal, dbg)>>
    /\ UNCHANGED <<contour, iter_vars, fs_vars, clip_images, nav_vars>>

\* next_endpoint_index_of(point_index) is entered; origin: no earlier call
CallNextEndpointIndexOf(point_index) ==
    /\ call = NoCall
    /\ InRange(contour, point_index)
    /\ call' = [op |-> "next_endpoint_index_of", from |-> point_index,
                point_index |-> point_index, origin |-> <<>>]
    /\ ret' = <<>>
    /\ UNCHANGED <<contour, iter_vars, fs_vars, clip_images, nav_vars>>

\* prev_endpoint_index_of(point_index) is entered, either first thing or on
\* the index next_endpoint_index_of(origin) has just returned
CallPrevEndpointIndexOf(point_index) ==
    /\ InRange(contour, point_index)
    /\ \/ /\ call = NoCall
          /\ call' = [op |-> "prev_endpoint_index_of", from |-> point_index,
                      point_index |-> point_index, origin |-> <<>>]
       \/ /\ call # NoCall
          /\ call.op = "next_endpoint_index_of"
          /\ ret = <<point_index>>
          /\ call' = [op |-> "prev_endpoint_index_of", from |-> point_index,
                      point_index |-> point_index, origin |-> <<call.from>>]
    /\ ret' = <<>>
    /\ UNCHANGED <<contour, iter_vars, fs_vars, clip_images, nav_vars>>

\* one turn of the loop of next_endpoint_index_of
NextEndpointLoop ==
    /\ call # NoCall
    /\ call.op = "next_endpoint_index_of"
    /\ ret = <<>>
    /\ LET r == next_endpoint_index_of_step(contour, call.point_index) IN
         /\ call' = [call EXCEPT !.point_index = r.point_index]
         /\ ret' = r.returned
    /\ UNCHANGED <<contour, iter_vars, fs_vars, clip_images, nav_vars>>

\* one turn of the loop of prev_endpoint_index_of
PrevEndpointLoop ==
    /\ call # NoCall
    /\ call.op = "prev_endpoint_index_of"
    /\ ret = <<>>
    /\ LET r == prev_endpoint_index_of_step(contour, call.point_index) IN
         /\ call' = [call EXCEPT !.point_index = r.point_index]
         /\ ret' = r.returned
    /\ UNCHANGED <<contour, iter_vars, fs_vars, clip_images, nav_vars>>

NextQuery ==
    \/ \E i \in 0..(MaxQuery - 1), k \in 0..3 : CallAddToPointIndex(i, k)
    \/ \E a \in 0..(MaxQuery - 1), b \in 0..(MaxQuery - 1) : CallPointIsLogicallyAbove(a, b)
    \/ \E i \in 0..(MaxQuery - 1), dbg \in BOOLEAN : CallSegmentAfter(i, dbg)
    \/ \E dbg \in BOOLEAN : CallIter(dbg)
    \/ \E c \in ContourOrdinals, p \in PointOrdinals, dbg \in BOOLEAN :
           CallPointIndexNew(c, p, dbg)
    \/ \E i \in 0..(MaxQuery - 1) : CallNextEndpointIndexOf(i)
    \/ \E i \in 0..(MaxQuery - 1) : CallPrevEndpointIndexOf(i)
    \/ NextEndpointLoop
    \/ PrevEndpointLoop

SpecQuery == InitQuery /\ [][NextQuery]_vars

\* SpecEndpoint: the endpoint searches alone, turn by turn; a loop that can
\* take another turn does take it
NextEndpoint ==
    \/ \E i \in 0..(MaxQuery - 1) : CallNextEndpointIndexOf(i)
    \/ \E i \in 0..(MaxQuery - 1) : CallPrevEndpointIndexOf(i)
    \/ NextEndpointLoop
    \/ PrevEndpointLoop

SpecEndpoint ==
    /\ InitQuery /\ [][NextEndpoint]_vars
    /\ WF_vars(NextEndpointLoop) /\ WF_vars(PrevEndpointLoop)

\* C14: PointIndex::new with a contour ordinal above 4095 or a point ordinal
\* above 1,048,575, and segment_after at a point that carries CONTROL_POINT_0
\* or CONTROL_POINT_1, end in a fatal assertion failure and return no value.
C14_PreconditionsFatal ==
    /\ (call.op = "PointIndex::new" /\ (call.contour > 4095 \/ call.point > 1048575))
           => ret = <<PointIndexPanic>>
    /\ (call.op = "segment_after" /\ ~point_is_endpoint(contour, call.point_index))
           => ret = <<SegmentPanic>>

\* C14 failing input: without debug assertions PointIndex::new(4096, 0)
\* returns the packed value of PointIndex::new(0, 0)
C14_FailingInput ==
    /\ call = [op |-> "PointIndex::new", contour |-> 4096, point |-> 0, dbg |-> FALSE]
    /\ ret = <<PointIndexNew(0, 0, FALSE)>>

InRangeOrdinals(contour_ordinal, point_ordinal) ==
    contour_ordinal <= 4095 /\ point_ordinal <= 1048575

\* C15: for a contour ordinal c in 0..4095 and a point ordinal p in
\* 0..1,048,575, PointIndex::new(c, p) returns a value whose contour() is c
\* and whose point() is p; no bit of c << 20 is shifted out of the 32 and the
\* two fields do not overlap; another such pair gives another value, and the
\* values are ordered as the pairs are, c first and p second.
C15_PackingRoundTrip ==
    (call.op = "PointIndex::new" /\ InRangeOrdinals(call.contour, call.point)) =>
        /\ ret # <<>> /\ ~ret[1].panic
        /\ PointIndexContour(ret[1]) = call.contour
        /\ PointIndexPoint(ret[1]) = call.point
        /\ Shr(Shl(ToU32(call.contour), 20), 20) = ToU32(call.contour)
        /\ BitAnd(Shl(ToU32(call.contour), 20), ToU32(call.point)) = ToU32(0)
        /\ \A c \in ContourOrdinals, p \in PointOrdinals :
               InRangeOrdinals(c, p) =>
                   LET other == PointIndexNew(c, p, call.dbg) IN
                   /\ (<<c, p>> # <<call.contour, call.point>>) => other.value # ret[1].value
                   /\ U32Less(ret[1].value, other.value)
                          <=> (call.contour < c \/ (call.contour = c /\ call.point < p))

\* C15 witness: the largest pair is packed into the value with all 32 bits set
C15_Witness ==
    /\ call.op = "PointIndex::new"
    /\ call.contour = 4095 /\ call.point = 1048575
    /\ ret = <<PointIndex([i \in 0..31 |-> 1])>>

\* C16: on the point indices of a contour point_is_logically_above is a
\* strict total order: a is above b iff y(a) < y(b), or y(a) = y(b) and
\* a < b; no index is above itself; of two distinct indices exactly one is
\* above the other; and it is transitive.
C16_LogicallyAboveOrder ==
    call.op = "point_is_logically_above" =>
        LET a == call.a
            b == call.b
            y(i) == contour.points[i + 1].y
            above(i, j) == point_is_logically_above(contour, i, j)
        IN  /\ ret[1] = (y(a) < y(b) \/ (y(a) = y(b) /\ a < b))
            /\ a = b => ret[1] = FALSE
            /\ a # b => (ret[1] <=> ~above(b, a))
            /\ \A k \in 0..(len(contour) - 1) : (ret[1] /\ above(b, k)) => above(a, k)

\* C16 witness: two points of the same height, the one of lower index above
\* the other
C16_Witness ==
    /\ call = [op |-> "point_is_logically_above", a |-> 1, b |-> 3]
    /\ contour.points[2].y = contour.points[4].y
    /\ ret = <<TRUE>>

\* C17: add_to_point_index(i, k) on a contour of N >= 1 points, with i in
\* 0..N-1 and k in 0..3, returns (i + k) mod N, an index in 0..N-1.
C17_AddIsModular ==
    call.op = "add_to_point_index" =>
        /\ ret[1] = (call.point_index + call.addend) % len(contour)
        /\ InRange(contour, ret[1])

\* C17 failing input: N = 1, i = 0, k = 2
C17_FailingInput ==
    /\ len(contour) = 1
    /\ call = [op |-> "add_to_point_index", point_index |-> 0, addend |-> 2]
    /\ ret = <<1>>

IsControl(c, i) == ~point_is_endpoint(c, i)

\* segment_after is defined at each endpoint: point 0 is an endpoint and no
\* three control points follow one another
SegmentAfterDefined(c) ==
    /\ ~is_empty(c)
    /\ point_is_endpoint(c, 0)
    /\ \A i \in 0..(len(c) - 3) : ~(IsControl(c, i) /\ IsControl(c, i + 1) /\ IsControl(c, i + 2))

EndpointIndexSet(c) == {i \in 0..(len(c) - 1) : point_is_endpoint(c, i)}

\* the j-th endpoint index in increasing order, j from 1
NthEndpoint(c, j) ==
    CHOOSE i \in EndpointIndexSet(c) :
        Cardinality({k \in EndpointIndexSet(c) : k < i}) = j - 1

\* C18: on a contour on which segment_after is defined at each endpoint, a
\* final curve whose control points are the last points of the array
\* included, ContourIter yields one segment per endpoint, the j-th with the
\* kind, baseline and control points of segment_after at the j-th endpoint,
\* and reads no point index >= len (it does not panic).
C18_IterMirrorsSegmentAfter ==
    (call.op = "iter" /\ SegmentAfterDefined(contour)) =>
        LET segments == ret[1] IN
        /\ \A j \in 1..Len(segments) : segments[j] # SegmentPanic
        /\ Len(segments) = Cardinality(EndpointIndexSet(contour))
        /\ \A j \in 1..Len(segments) :
               LET s == segment_after(contour, NthEndpoint(contour, j), call.dbg) IN
               /\ segments[j].kind = s.kind
               /\ segments[j].baseline = s.baseline
               /\ segments[j].ctrl = s.ctrl

\* C18 failing input: the contour [endpoint, control point], whose only
\* curve wraps to point 0; the iterator reads index 2
C18_FailingInput ==
    /\ call.op = "iter"
    /\ contour.flags = <<PointFlagsEmpty, CONTROL_POINT_0>>
    /\ ret = <<<<SegmentPanic>>>>
    /\ segment_after(contour, 0, call.dbg).kind = "Quadratic"

HasEndpoint(c) == EndpointIndexSet(c) # {}

\* the first endpoint index met stepping from i, one point at a time, forward
\* (dir = 1) or backward (dir = -1) in circular order; c has an endpoint
FirstEndpointFrom(c, i, dir) ==
    LET n == len(c)
        at(k) == (i + n + dir * k) % n
        k0 == CHOOSE k \in 1..n :
                  /\ point_is_endpoint(c, at(k))
                  /\ \A j \in 1..(k - 1) : ~point_is_endpoint(c, at(j))
    IN  at(k0)

EndpointSearch == call.op \in {"next_endpoint_index_of", "prev_endpoint_index_of"}

\* what holds of an endpoint search in every state
EndpointSearchSafe ==
    EndpointSearch =>
        /\ (HasEndpoint(contour) /\ ret # <<>>) =>
               /\ ret[1] = FirstEndpointFrom(contour, call.from,
                               IF call.op = "next_endpoint_index_of" THEN 1 ELSE -1)
               /\ ret[1] = call.from <=> EndpointIndexSet(contour) = {call.from}
        /\ ~HasEndpoint(contour) => ret = <<>>
        /\ (call.origin # <<>> /\ ret # <<>> /\ point_is_endpoint(contour, call.origin[1]))
               => ret[1] = call.origin[1]

\* C19: in a contour with at least one endpoint next_endpoint_index_of(i) and
\* prev_endpoint_index_of(i) return, for every valid i, and what they return
\* is the first endpoint index met stepping strictly forward (backward) from
\* i in circular order, i itself only when i is the sole endpoint; for an
\* endpoint e, prev_endpoint_index_of(next_endpoint_index_of(e)) = e; in a
\* non-empty contour with no endpoint neither call ever returns.
C19_EndpointNavigation ==
    /\ []EndpointSearchSafe
    /\ (EndpointSearch /\ HasEndpoint(contour)) ~> (ret # <<>>)

\* C19 witness: prev_endpoint_index_of on what next_endpoint_index_of(0)
\* returned has come back to 0 over the two control points of a cubic
C19_Witness ==
    /\ contour.flags = <<PointFlagsEmpty, CONTROL_POINT_0, CONTROL_POINT_1, PointFlagsEmpty>>
    /\ call.op = "prev_endpoint_index_of"
    /\ call.from = 3
    /\ call.origin = <<0>>
    /\ ret = <<0>>

====
